---- MODULE Spec2Model ----
(***************************************************************************)
(* darkskyplot: ingestion of sky-darkness data files and the               *)
(* interpolation pipeline that turns one 65-value record into the dense    *)
(* (azimuth, zenith) grid handed to the polar contour plot.                *)
(*                                                                         *)
(* numpy arrays are modelled as functions on 0 .. n-1, so that indices     *)
(* read as they do in the source.  Measures are exact numbers in units of  *)
(* 1/UNIT mag/arcsec^2: every input measure is a whole multiple of UNIT,   *)
(* which makes both linear interpolation passes (knot distances 20, 10 and *)
(* 30 degrees) exact in integer arithmetic.                                *)
(***************************************************************************)
EXTENDS Integers, Sequences, FiniteSets, TLC

----------------------------------------------------------------------------
(* polarctes.py: constants                                                 *)

DATA_FILE_MIN_LINES == 2
DATA_FILE_ITEM_WITH_TITLE == 0
DATA_FILE_ITEM_WITH_DATA == 1
DATA_SIZE == 65
DATA_LIST_TITLE == 0
DATA_LIST_DATA == 1

\* the symbols a line of a data file is made of: the separator, the text of a
\* real number (its value in units of 1/UNIT), and text that is no number
DATA_SEPARATOR == [ch |-> ",", v |-> 0]
Num(v) == [ch |-> "num", v |-> v]
Txt == [ch |-> "txt", v |-> 0]

\* 20 * 30: the least unit in which every interpolated value is a whole number
UNIT == 20 * 30

len(a) == Cardinality(DOMAIN a)

\* ZENITHS = [20, 40, 60, 80, 90]
ZENITHS == [k \in 0..4 |-> IF k = 4 THEN 90 ELSE 20 + 20 * k]

\* ALL_ZENITH_VALUES = range(ZENITHS[0], ZENITHS[-1] + 1)
ALL_ZENITH_VALUES == [k \in 0..(ZENITHS[len(ZENITHS) - 1] - ZENITHS[0]) |-> ZENITHS[0] + k]

\* ALL_ZENITH_VALUES_INV = range(ZENITHS[-1], ZENITHS[0] - 1, -1)
ALL_ZENITH_VALUES_INV == [k \in 0..(ZENITHS[len(ZENITHS) - 1] - ZENITHS[0]) |-> ZENITHS[len(ZENITHS) - 1] - k]

\* AZIMUTHS = [0, 30, ..., 330, 360]
AZIMUTHS == [j \in 0..12 |-> 30 * j]

\* AZIMUTH_RANGE = range(AZIMUTHS[0], AZIMUTHS[-1] + 1)
AZIMUTH_RANGE == [a \in 0..(AZIMUTHS[len(AZIMUTHS) - 1] - AZIMUTHS[0]) |-> AZIMUTHS[0] + a]

LIGHTEST_VALUE == 19 * UNIT
DARKER_VALUE == 22 * UNIT

----------------------------------------------------------------------------
(* numpy helpers                                                           *)

\* np.append(a, b): a new array, a followed by b
append(a, b) ==
    [n \in 0..(len(a) + len(b) - 1) |-> IF n < len(a) THEN a[n] ELSE b[n - len(a)]]

\* a[lo:hi] with 0 <= lo, clipped to the array as Python slices are
slice(a, lo, hi) ==
    LET top == IF hi < len(a) THEN hi ELSE len(a)
    IN  [n \in 0..(top - lo - 1) |-> a[lo + n]]

\* np.interp at one point: clamped outside the knots, the knot's own value at
\* a knot, fp[j] + slope * (x - xp[j]) between two knots
interp1(x, xp, fp) ==
    LET last == len(xp) - 1
    IN  IF x >= xp[last] THEN fp[last]
        ELSE IF x <= xp[0] THEN fp[0]
        ELSE LET j == CHOOSE j \in 0..(last - 1) : xp[j] <= x /\ x < xp[j + 1]
             IN  fp[j] + ((fp[j + 1] - fp[j]) * (x - xp[j])) \div (xp[j + 1] - xp[j])

\* np.interp(x, xp, fp)
interp(x, xp, fp) == [n \in DOMAIN x |-> interp1(x[n], xp, fp)]

----------------------------------------------------------------------------
(* darskyplot.py: ingestion                                                *)

\* Python's None, unequal to every [title, numbers] list
None == <<>>

\* the 0-based array holding the elements of a sequence
array(s) == [n \in 0..(Len(s) - 1) |-> s[n + 1]]

\* the fields of line[lo:hi] between the separators, one more field than there
\* are separators (an empty line has one empty field): those of its two halves,
\* the last field of the first half running on into the first of the second
RECURSIVE fields(_, _, _, _)
fields(line, sep, lo, hi) ==
    IF hi = lo THEN << <<>> >>
    ELSE IF hi = lo + 1
    THEN IF line[lo] = sep THEN << <<>>, <<>> >> ELSE << <<line[lo]>> >>
    ELSE LET mid   == (lo + hi) \div 2
             left  == fields(line, sep, lo, mid)
             right == fields(line, sep, mid, hi)
         IN  SubSeq(left, 1, Len(left) - 1)
             \o << left[Len(left)] \o right[1] >>
             \o SubSeq(right, 2, Len(right))

\* str.split(sep): the array of the fields, each the array of its symbols
split(line, sep) ==
    LET all == fields(line, sep, 0, len(line))
    IN  [k \in 0..(Len(all) - 1) |-> array(all[k + 1])]

\* float(i) raises ValueError unless the field is the text of one real number
float_raises(i) == ~(len(i) = 1 /\ i[0].ch = "num")

float(i) == i[0].v

\* data_is_valid requiring one value per sampled zenith of every sampled
\* azimuth but the closing one, (N_a - 1) * N_z, in place of DATA_SIZE
data_is_valid_open(data_read) ==
    IF len(data_read) >= DATA_FILE_MIN_LINES
    THEN LET data_line       == data_read[DATA_FILE_ITEM_WITH_DATA]
             data_line_split == split(data_line, DATA_SEPARATOR)
         IN  IF len(data_line_split) = (len(AZIMUTHS) - 1) * len(ZENITHS)
             THEN IF \E k \in DOMAIN data_line_split : float_raises(data_line_split[k])
                  THEN [raised |-> "ValueError", value |-> None]
                  ELSE LET data_numbers == [k \in DOMAIN data_line_split |->
                                               float(data_line_split[k])]
                       IN  [raised |-> "",
                            value  |-> [n \in 0..1 |->
                                          IF n = DATA_LIST_TITLE
                                          THEN data_read[DATA_FILE_ITEM_WITH_TITLE]
                                          ELSE data_numbers]]
             ELSE [raised |-> "", value |-> None]
    ELSE [raised |-> "", value |-> None]

\* data_is_valid(data_read): what the call returns, or the exception it raises
data_is_valid(data_read) ==
    IF len(data_read) >= DATA_FILE_MIN_LINES
    THEN LET data_line       == data_read[DATA_FILE_ITEM_WITH_DATA]
             data_line_split == split(data_line, DATA_SEPARATOR)
         IN  IF len(data_line_split) = DATA_SIZE
             THEN IF \E k \in DOMAIN data_line_split : float_raises(data_line_split[k])
                  THEN [raised |-> "ValueError", value |-> None]
                  ELSE LET data_numbers == [k \in DOMAIN data_line_split |->
                                               float(data_line_split[k])]
                       IN  [raised |-> "",
                            value  |-> [n \in 0..1 |->
                                          IF n = DATA_LIST_TITLE
                                          THEN data_read[DATA_FILE_ITEM_WITH_TITLE]
                                          ELSE data_numbers]]
             ELSE [raised |-> "", value |-> None]
    ELSE [raised |-> "", value |-> None]

----------------------------------------------------------------------------
(* darskyplot.py: the interpolation pipeline                               *)

\* first loop of interpolate_sky_measures: one dense zenith profile per block
\* of len(ZENITHS) input values, concatenated in block order
zenith_loop(initial_values) ==
    LET nz     == len(ALL_ZENITH_VALUES)
        blocks == (len(initial_values) + len(ZENITHS) - 1) \div len(ZENITHS)
        prof   == [b \in 0..(blocks - 1) |->
                     interp(ALL_ZENITH_VALUES, ZENITHS,
                            slice(initial_values, b * len(ZENITHS), (b + 1) * len(ZENITHS)))]
    IN  [n \in 0..(blocks * nz - 1) |-> prof[n \div nz][n % nz]]

\* the measurements gathered for dense zenith index i: one per sampled azimuth
\* j, read at index i + len(ALL_ZENITH_VALUES) * j
values_at_zenith(zeniths, i) ==
    [j \in 0..(len(AZIMUTHS) - 1) |-> zeniths[i + len(ALL_ZENITH_VALUES) * j]]

\* np.interp(AZIMUTH_RANGE, AZIMUTHS, values_at_zenith), before the [:-1]
azimuth_profile(zeniths, i) ==
    interp(AZIMUTH_RANGE, AZIMUTHS, values_at_zenith(zeniths, i))

\* second loop of interpolate_sky_measures: for each dense zenith index the
\* azimuth profile without its last value, concatenated in zenith order
azimuth_loop(zeniths) ==
    LET nz   == len(ALL_ZENITH_VALUES)
        na   == len(AZIMUTH_RANGE) - 1
        prof == [i \in 0..(nz - 1) |-> slice(azimuth_profile(zeniths, i), 0, na)]
    IN  [n \in 0..(nz * na - 1) |-> prof[n \div na][n % na]]

\* the wrap block one element short: the first len(dense_zeniths) - 1 values
wrap_short(measures) == append(measures, slice(measures, 0, 70))

\* the wrap block filled with zeros in place of the first values
wrap_zeros(measures) == append(measures, [n \in 0..70 |-> 0])

\* np.append(interp_measures, interp_measures[:71])
wrap(measures) == append(measures, slice(measures, 0, 71))

\* a.reshape(rows, cols, order='F') of a 1-D array: element [r][c] is
\* a[r + rows * c]; numpy raises ValueError unless len(a) = rows * cols
reshape_raises(a, rows, cols) == len(a) # rows * cols

reshape(a, rows, cols) ==
    [r \in 0..(rows - 1) |-> [c \in 0..(cols - 1) |-> a[r + rows * c]]]

\* the grid left as reshaped, its last row not overwritten
close_seam_skipped(grid) == grid

\* interp_measures[-1] = interp_measures[0]
close_seam(grid) == [grid EXCEPT ![len(grid) - 1] = grid[0]]

\* prepare_interp_measures(interp_measures): the grid it returns
prepare_interp_measures(measures) ==
    close_seam(reshape(wrap(measures), len(AZIMUTH_RANGE), len(ALL_ZENITH_VALUES_INV)))

\* the darker value written at [-1][0] in place of [-1][-1]
set_color_range_first_column(grid) ==
    LET lastrow == len(grid) - 1
    IN  [[grid EXCEPT ![0][0] = LIGHTEST_VALUE] EXCEPT ![lastrow][0] = DARKER_VALUE]

\* interp_measures[0][0] = LIGHTEST_VALUE; interp_measures[-1][-1] = DARKER_VALUE
set_color_range(grid) ==
    LET lastrow == len(grid) - 1
        lastcol == len(grid[lastrow]) - 1
    IN  [[grid EXCEPT ![0][0] = LIGHTEST_VALUE] EXCEPT ![lastrow][lastcol] = DARKER_VALUE]

----------------------------------------------------------------------------
(* inputs                                                                  *)

\* files per run
MaxFiles == 3
\* the measures of a record start at LIGHTEST_VALUE + 0 .. MaxLevel mag
MaxLevel == 1

\* a record of DATA_SIZE measures, azimuth-major: its level, one mag more per
\* sampled zenith when rising, one mag more per sampled azimuth when turning;
\* when closed, the block of azimuth 360 repeats the block of azimuth 0
Measures(level, rising, turning, closed) ==
    [n \in 0..(DATA_SIZE - 1) |->
        LET j == n \div len(ZENITHS)
            k == n % len(ZENITHS)
        IN  LIGHTEST_VALUE
            + UNIT * (level
                      + (IF rising THEN k ELSE 0)
                      + (IF ~turning THEN 0
                         ELSE IF closed THEN j % (len(AZIMUTHS) - 1) ELSE j))]

Records ==
    { Measures(level, rising, turning, closed) :
        level \in 0..MaxLevel, rising \in BOOLEAN, turning \in BOOLEAN,
        closed \in BOOLEAN }

Title == [n \in 0..0 |-> Txt]

\* a line of count comma-separated items, all numbers unless bad
DataLine(count, bad) ==
    [p \in 0..(2 * count - 2) |->
        IF p % 2 = 1 THEN DATA_SEPARATOR
        ELSE IF bad /\ p = 2 THEN Txt
        ELSE Num(LIGHTEST_VALUE + UNIT * ((p \div 2) % 3))]

File(lines, count, bad) ==
    [l \in 0..(lines - 1) |->
        IF l = DATA_FILE_ITEM_WITH_DATA THEN DataLine(count, bad) ELSE Title]

\* the data files of a run: well-formed ones of two and of three lines, files
\* of too few lines, of too few and too many items, and of items that are no
\* numbers
Files ==
    { File(lines, DATA_SIZE, FALSE) : lines \in 0..(DATA_FILE_MIN_LINES + 1) }
    \cup { File(DATA_FILE_MIN_LINES, count, FALSE) :
             count \in { (len(AZIMUTHS) - 1) * len(ZENITHS), DATA_SIZE + 1 } }
    \cup { File(DATA_FILE_MIN_LINES, count, TRUE) :
             count \in { DATA_SIZE, DATA_SIZE + 1 } }

RECURSIVE Arrays(_, _)
Arrays(S, n) ==
    IF n = 0 THEN { <<>> }
    ELSE Arrays(S, n - 1)
         \cup { [p \in 0..(n - 1) |-> q[p + 1]] : q \in [1..n -> S] }

----------------------------------------------------------------------------
(* state                                                                   *)

VARIABLES
    pc,                        \* where the run, or the call of plot_polar, is
    use_data_for_color_range,  \* progargs.use_data_for_color_range (-r)
    files,                     \* the data files glob found, each an array of lines
    f,                         \* read_data_files: index of the next file
    returned,                  \* what data_is_valid did for each file read so far
    data,                      \* read_data_files: the list it builds
    origin,                    \* for each item of data, the index of its file
    i,                         \* main: index of the next item of data
    plotted,                   \* the items plot_polar was called on, in order
    title,                     \* plot_polar: its arguments
    initial_values,
    interp_zeniths,            \* interpolate_sky_measures: its two arrays
    all_azimuths,
    interp_measures,           \* plot_polar: the grid
    contour,                   \* the grid ax.contour was given
    contourf                   \* the grid ax.contourf was given

run_vars == <<files, f, returned, data, origin, i, plotted>>
plot_vars == <<title, initial_values, interp_zeniths, all_azimuths,
               interp_measures, contour, contourf>>
vars == <<pc, use_data_for_color_range, run_vars, plot_vars>>

NoRun ==
    /\ files = <<>> /\ f = 0 /\ returned = <<>> /\ data = <<>>
    /\ origin = <<>> /\ i = 0 /\ plotted = <<>>

NoPlot ==
    /\ title = <<>> /\ initial_values = <<>> /\ interp_zeniths = <<>>
    /\ all_azimuths = <<>> /\ interp_measures = <<>>
    /\ contour = <<>> /\ contourf = <<>>

----------------------------------------------------------------------------
(* main: read the data files, then plot each record read                   *)

Init ==
    /\ pc = "read"
    /\ use_data_for_color_range \in BOOLEAN
    /\ files \in Arrays(Files, MaxFiles)
    /\ f = 0 /\ returned = <<>> /\ data = <<>>
    /\ origin = <<>> /\ i = 0 /\ plotted = <<>>
    /\ NoPlot

\* one pass of the loop of read_data_files: read the file, validate it, keep it
\* when valid; an exception of data_is_valid ends the run
ReadFile ==
    /\ pc = "read"
    /\ f < len(files)
    /\ LET data_read == data_is_valid(files[f])
       IN  /\ returned' = append(returned, [n \in 0..0 |-> data_read])
           /\ IF data_read.raised # ""
              THEN /\ pc' = data_read.raised
                   /\ UNCHANGED <<f, data, origin>>
              ELSE /\ f' = f + 1
                   /\ pc' = pc
                   /\ IF data_read.value # None
                      THEN /\ data' = append(data, [n \in 0..0 |-> data_read.value])
                           /\ origin' = append(origin, [n \in 0..0 |-> f])
                      ELSE UNCHANGED <<data, origin>>
    /\ UNCHANGED <<use_data_for_color_range, files, i, plotted, plot_vars>>

\* read_data_files returns data
ReadDone ==
    /\ pc = "read"
    /\ f = len(files)
    /\ pc' = "plot"
    /\ UNCHANGED <<use_data_for_color_range, run_vars, plot_vars>>

\* one pass of the loop of main: plot_polar on data[i]
PlotRecord ==
    /\ pc = "plot"
    /\ i < len(data)
    /\ plotted' = append(plotted, [n \in 0..0 |-> data[i]])
    /\ i' = i + 1
    /\ UNCHANGED <<pc, use_data_for_color_range, files, f, returned, data, origin,
                   plot_vars>>

\* 'Program finished.'
Finish ==
    /\ pc = "plot"
    /\ i = len(data)
    /\ pc' = "done"
    /\ UNCHANGED <<use_data_for_color_range, run_vars, plot_vars>>

Next == ReadFile \/ ReadDone \/ PlotRecord \/ Finish

Spec == Init /\ [][Next]_vars

----------------------------------------------------------------------------
(* plot_polar(title, initial_values, progargs), statement by statement     *)

InitPlot ==
    /\ pc = "plot_polar"
    /\ use_data_for_color_range \in BOOLEAN
    /\ title = Title
    /\ initial_values \in Records
    /\ interp_zeniths = <<>> /\ all_azimuths = <<>> /\ interp_measures = <<>>
    /\ contour = <<>> /\ contourf = <<>>
    /\ NoRun

\* interpolate_sky_measures, its first loop
ZenithLoop ==
    /\ pc = "plot_polar"
    /\ interp_zeniths' = zenith_loop(initial_values)
    /\ pc' = "zeniths"
    /\ UNCHANGED <<use_data_for_color_range, run_vars, title, initial_values,
                   all_azimuths, interp_measures, contour, contourf>>

\* interpolate_sky_measures, its second loop and its return
AzimuthLoop ==
    /\ pc = "zeniths"
    /\ all_azimuths' = azimuth_loop(interp_zeniths)
    /\ pc' = "interpolated"
    /\ UNCHANGED <<use_data_for_color_range, run_vars, title, initial_values,
                   interp_zeniths, interp_measures, contour, contourf>>

\* azimuths, interp_measures = prepare_interp_measures(interp_measures)
Prepare ==
    /\ pc = "interpolated"
    /\ IF reshape_raises(wrap(all_azimuths), len(AZIMUTH_RANGE), len(ALL_ZENITH_VALUES_INV))
       THEN /\ pc' = "ValueError"
            /\ UNCHANGED interp_measures
       ELSE /\ pc' = "prepared"
            /\ interp_measures' = prepare_interp_measures(all_azimuths)
    /\ UNCHANGED <<use_data_for_color_range, run_vars, title, initial_values,
                   interp_zeniths, all_azimuths, contour, contourf>>

\* cax = ax.contour(theta, r, interp_measures, ...)
Contour ==
    /\ pc = "prepared"
    /\ contour' = interp_measures
    /\ pc' = "contour"
    /\ UNCHANGED <<use_data_for_color_range, run_vars, title, initial_values,
                   interp_zeniths, all_azimuths, interp_measures, contourf>>

\* if not progargs.use_data_for_color_range: set the two fixed values
ColorRange ==
    /\ pc = "contour"
    /\ interp_measures' = IF ~use_data_for_color_range
                          THEN set_color_range(interp_measures)
                          ELSE interp_measures
    /\ pc' = "color_range"
    /\ UNCHANGED <<use_data_for_color_range, run_vars, title, initial_values,
                   interp_zeniths, all_azimuths, contour, contourf>>

\* cax = ax.contourf(theta, r, interp_measures, COLORBAR_THICKNESS)
Contourf ==
    /\ pc = "color_range"
    /\ contourf' = interp_measures
    /\ pc' = "contourf"
    /\ UNCHANGED <<use_data_for_color_range, run_vars, title, initial_values,
                   interp_zeniths, all_azimuths, interp_measures, contour>>

NextPlot == ZenithLoop \/ AzimuthLoop \/ Prepare \/ Contour \/ ColorRange \/ Contourf

SpecPlot == InitPlot /\ [][NextPlot]_vars

----------------------------------------------------------------------------
(* properties of ingestion, under Spec                                     *)

\* the number of comma-separated items on the data line of a file
ItemCount(file) ==
    Cardinality({ p \in DOMAIN file[DATA_FILE_ITEM_WITH_DATA] :
                    file[DATA_FILE_ITEM_WITH_DATA][p] = DATA_SEPARATOR }) + 1

HasDataLine(file) == len(file) >= DATA_FILE_MIN_LINES

AllNumbers(file) ==
    \A p \in DOMAIN file[DATA_FILE_ITEM_WITH_DATA] :
        file[DATA_FILE_ITEM_WITH_DATA][p].ch \in { ",", "num" }

WrongShape(file) == ~HasDataLine(file) \/ ItemCount(file) # DATA_SIZE
NonNumeric(file) == HasDataLine(file) /\ ItemCount(file) = DATA_SIZE /\ ~AllNumbers(file)
ValidFile(file)  == HasDataLine(file) /\ ItemCount(file) = DATA_SIZE /\ AllNumbers(file)

WasRead(k)     == k \in DOMAIN returned
Accepted(k)    == WasRead(k) /\ returned[k].raised = "" /\ returned[k].value # None
ReturnedNone(k) == WasRead(k) /\ returned[k].raised = "" /\ returned[k].value = None
Kept(k)        == \E d \in DOMAIN origin : origin[d] = k
Plotted(k)     == \E d \in DOMAIN plotted : origin[d] = k
RunEnded       == pc \in { "done", "ValueError" }

\* C4, as stated: a file with a data line is accepted exactly when the number
\* of items on the line is (N_a - 1) * N_z
C4_AcceptedIffOpenCount ==
    \A k \in DOMAIN returned :
        HasDataLine(files[k]) =>
            (Accepted(k) <=> ItemCount(files[k]) = (len(AZIMUTHS) - 1) * len(ZENITHS))

\* C4, amended: the required count is N_a * N_z = DATA_SIZE = 65; a file is
\* accepted only with that many items, returns None with any other number, and
\* is accepted with that many when every item is a number
C4_AcceptedIffClosedCount ==
    /\ DATA_SIZE = len(AZIMUTHS) * len(ZENITHS)
    /\ \A k \in DOMAIN returned :
        HasDataLine(files[k]) =>
            /\ Accepted(k) => ItemCount(files[k]) = len(AZIMUTHS) * len(ZENITHS)
            /\ ItemCount(files[k]) # len(AZIMUTHS) * len(ZENITHS) => ReturnedNone(k)
            /\ ItemCount(files[k]) = len(AZIMUTHS) * len(ZENITHS) /\ AllNumbers(files[k])
                  => Accepted(k)

\* a run that accepted a file of N_a * N_z items and turned down one of
\* (N_a - 1) * N_z items
C4_Witness ==
    \E k, m \in DOMAIN returned :
        /\ Accepted(k) /\ ItemCount(files[k]) = len(AZIMUTHS) * len(ZENITHS)
        /\ HasDataLine(files[m]) /\ ReturnedNone(m)
        /\ ItemCount(files[m]) = (len(AZIMUTHS) - 1) * len(ZENITHS)

\* C5: once the run has ended, every file of too few lines or of a wrong
\* number of items was given None by data_is_valid, is not in data and was not
\* plotted, and every valid file of a run that holds such a file was read,
\* kept and plotted
C5_WrongShapeRejectedOthersPlotted ==
    RunEnded =>
        \A w \in DOMAIN files :
            WrongShape(files[w]) =>
                /\ WasRead(w) => ReturnedNone(w)
                /\ ~Kept(w) /\ ~Plotted(w)
                /\ \A k \in DOMAIN files :
                      ValidFile(files[k]) => Accepted(k) /\ Kept(k) /\ Plotted(k)

\* C6: data_is_valid returns None for every file of DATA_SIZE items of which
\* one is no number, the file is skipped, and once the run has ended every
\* valid file of such a run was read and plotted
C6_NonNumericRejectedOthersPlotted ==
    \A b \in DOMAIN files :
        NonNumeric(files[b]) =>
            /\ WasRead(b) => ReturnedNone(b) /\ ~Kept(b)
            /\ pc # "ValueError"
            /\ RunEnded =>
                  \A k \in DOMAIN files :
                      ValidFile(files[k]) => Accepted(k) /\ Plotted(k)

----------------------------------------------------------------------------
(* properties of the pipeline, under SpecPlot                              *)

Constant(values) == \A n \in DOMAIN values : values[n] = values[0]

\* C1: the grid prepare_interp_measures returns holds, at every sampled
\* azimuth and sampled zenith, the input value measured there
C1_ExactAtSamples ==
    pc = "prepared" =>
        \A j \in DOMAIN AZIMUTHS : \A k \in DOMAIN ZENITHS :
            interp_measures[AZIMUTHS[j]][ZENITHS[k] - ZENITHS[0]]
                = initial_values[j * len(ZENITHS) + k]

\* C2: the grid prepare_interp_measures returns has its row of azimuth 0 equal
\* to its row of azimuth 360 in every zenith column
C2_SeamClosure ==
    pc = "prepared" =>
        \A z \in DOMAIN ALL_ZENITH_VALUES :
            interp_measures[0][z] = interp_measures[len(interp_measures) - 1][z]

\* a grid returned whose last row, as reshaped, differed from its first
C2_Witness ==
    /\ pc = "prepared"
    /\ LET reshaped == reshape(wrap(all_azimuths), len(AZIMUTH_RANGE),
                               len(ALL_ZENITH_VALUES_INV))
       IN  \E z \in DOMAIN ALL_ZENITH_VALUES :
              reshaped[0][z] # reshaped[len(AZIMUTH_RANGE) - 1][z]

\* C3: the sequence that is reshaped has len(AZIMUTH_RANGE) *
\* len(ALL_ZENITH_VALUES) elements, the reshape does not raise, and the grid
\* has 361 rows of 71 columns
C3_Shape ==
    /\ pc # "ValueError"
    /\ pc = "interpolated" =>
          len(wrap(all_azimuths)) = len(AZIMUTH_RANGE) * len(ALL_ZENITH_VALUES)
    /\ pc = "prepared" =>
          /\ len(AZIMUTH_RANGE) = 361 /\ len(ALL_ZENITH_VALUES) = 71
          /\ len(interp_measures) = len(AZIMUTH_RANGE)
          /\ \A a \in DOMAIN interp_measures :
                len(interp_measures[a]) = len(ALL_ZENITH_VALUES)

\* a grid returned for a record whose values are not all the same
C3_Witness ==
    /\ pc = "prepared"
    /\ ~Constant(initial_values)
    /\ DOMAIN interp_measures = 0..360

\* C7: a record whose values all equal c yields a grid whose every cell is c
C7_ConstantField ==
    pc = "prepared" /\ Constant(initial_values) =>
        \A a \in DOMAIN interp_measures : \A z \in DOMAIN interp_measures[a] :
            interp_measures[a][z] = initial_values[0]

\* the grid of a constant record above LIGHTEST_VALUE
C7_Witness ==
    /\ pc = "prepared"
    /\ Constant(initial_values)
    /\ initial_values[0] > LIGHTEST_VALUE
    /\ interp_measures[180][35] = initial_values[0]

\* C8: for every dense zenith index the value gathered for azimuth 360 is the
\* first value of the profile, and the interpolated value at azimuth 360, which
\* is dropped, equals the one kept at azimuth 0
C8_AzimuthClosure ==
    pc = "interpolated" =>
        \A z \in DOMAIN ALL_ZENITH_VALUES :
            /\ values_at_zenith(interp_zeniths, z)[len(AZIMUTHS) - 1]
                  = values_at_zenith(interp_zeniths, z)[0]
            /\ azimuth_profile(interp_zeniths, z)[len(AZIMUTH_RANGE) - 1]
                  = all_azimuths[z * (len(AZIMUTH_RANGE) - 1)]

\* C9: cell [a][z] of the grid is element z * 360 + a of the sequence
\* interpolate_sky_measures returned, for every azimuth 0 .. 359 and every
\* dense zenith index
C9_ReshapeRecoversGrid ==
    pc = "prepared" =>
        \A a \in 0..(len(AZIMUTH_RANGE) - 2) : \A z \in DOMAIN ALL_ZENITH_VALUES :
            interp_measures[a][z] = all_azimuths[z * (len(AZIMUTH_RANGE) - 1) + a]

\* C10: without use_data_for_color_range the grid given to contourf is the
\* grid given to contour with [0][0] set to LIGHTEST_VALUE and [-1][-1] set to
\* DARKER_VALUE and every other cell as it was; with it, the same grid
C10_SentinelSubstitution ==
    pc = "contourf" =>
        IF use_data_for_color_range
        THEN contourf = contour
        ELSE /\ contourf[0][0] = LIGHTEST_VALUE
             /\ contourf[360][70] = DARKER_VALUE
             /\ \A a \in DOMAIN contour : \A z \in DOMAIN contour[a] :
                   \/ a = 0 /\ z = 0
                   \/ a = 360 /\ z = 70
                   \/ contourf[a][z] = contour[a][z]

\* a plot without the flag whose two corner cells held other values
C10_Witness ==
    /\ pc = "contourf"
    /\ ~use_data_for_color_range
    /\ contour[0][0] # LIGHTEST_VALUE
    /\ contour[360][70] # DARKER_VALUE
    /\ contourf[360][0] = contour[360][0]
    /\ contourf[0][70] = contour[0][70]

\* the elements prepare_interp_measures appended to the sequence it was given
WrapBlock ==
    LET wrapped == wrap(all_azimuths)
    IN  [n \in 0..(len(wrapped) - len(all_azimuths) - 1) |->
            wrapped[len(all_azimuths) + n]]

\* the appended elements are a copy of the first len(ALL_ZENITH_VALUES) - 1
\* elements of the sequence
C11_CopyOfFirstButOne ==
    pc = "prepared" =>
        /\ len(WrapBlock) = len(ALL_ZENITH_VALUES) - 1
        /\ \A n \in DOMAIN WrapBlock : WrapBlock[n] = all_azimuths[n]

\* the appended elements are the values of azimuth 0, one per dense zenith
C11_ProfileOfAzimuthZero ==
    pc = "prepared" =>
        \A z \in DOMAIN WrapBlock :
            WrapBlock[z] = all_azimuths[z * (len(AZIMUTH_RANGE) - 1)]

\* C11: prepare_interp_measures appends a copy of exactly the first
\* len(ALL_ZENITH_VALUES) - 1 elements of the zenith-major sequence, and the
\* appended elements are the dense-zenith profile of azimuth 0
C11_WrapBlock == C11_CopyOfFirstButOne /\ C11_ProfileOfAzimuthZero

====
